---- MODULE Spec2Model ----
(***************************************************************************)
(* validate-workflows.py: the GitHub Actions workflow validator.           *)
(*                                                                         *)
(* Texts and file names are TLA+ strings, read character by character.     *)
(* The regular expressions of validate_workflow_file are written out as    *)
(* the scans re.findall performs (leftmost match, greedy quantifiers,      *)
(* matches that do not overlap).  main() is a state machine over a         *)
(* directory drawn from a bounded set of file systems.                     *)
(***************************************************************************)
EXTENDS Integers, Sequences, FiniteSets, TLC

(***************************************************************************)
(* Bounds of the model.                                                    *)
(***************************************************************************)
\* Most entries a directory holds.
MaxEntries == 2
\* Most text fragments the files of one directory hold together.
MaxLines == 2

(***************************************************************************)
(* Characters and strings.                                                 *)
(***************************************************************************)
Ch(s, i) == SubSeq(s, i, i)

Min(a, b) == IF a <= b THEN a ELSE b

\* s[i:].startswith(lit), i counted from 1.
StartsWithAt(s, i, lit) ==
    /\ i >= 1
    /\ i + Len(lit) - 1 <= Len(s)
    /\ SubSeq(s, i, i + Len(lit) - 1) = lit

\* str.endswith
EndsWith(s, suffix) ==
    /\ Len(suffix) <= Len(s)
    /\ SubSeq(s, Len(s) - Len(suffix) + 1, Len(s)) = suffix

\* lit in s
Contains(s, lit) == \E i \in 1..(Len(s) - Len(lit) + 1) : StartsWithAt(s, i, lit)

\* The least element of a non-empty set of integers.
Least(S) == CHOOSE x \in S : \A y \in S : x <= y

\* The classes of the patterns: \s, [A-Z_], \d.
IsSpace(c) == c \in {" ", "\n", "\t", "\r", "\f"}

IsUpperOrUnderscore(c) ==
    c \in {"A", "B", "C", "D", "E", "F", "G", "H", "I", "J", "K", "L", "M",
           "N", "O", "P", "Q", "R", "S", "T", "U", "V", "W", "X", "Y", "Z", "_"}

IsDigit(c) == c \in {"0", "1", "2", "3", "4", "5", "6", "7", "8", "9"}

\* The first index >= i whose character is not in the class (Len(s)+1 when
\* the class runs to the end): where a greedy class* or class+ stops.
SkipSpace(s, i) ==
    IF i > Len(s) THEN i
    ELSE CHOOSE j \in i..(Len(s) + 1) :
           /\ j = Len(s) + 1 \/ ~IsSpace(Ch(s, j))
           /\ \A k \in i..(j - 1) : IsSpace(Ch(s, k))

SkipUpper(s, i) ==
    IF i > Len(s) THEN i
    ELSE CHOOSE j \in i..(Len(s) + 1) :
           /\ j = Len(s) + 1 \/ ~IsUpperOrUnderscore(Ch(s, j))
           /\ \A k \in i..(j - 1) : IsUpperOrUnderscore(Ch(s, k))

SkipDigit(s, i) ==
    IF i > Len(s) THEN i
    ELSE CHOOSE j \in i..(Len(s) + 1) :
           /\ j = Len(s) + 1 \/ ~IsDigit(Ch(s, j))
           /\ \A k \in i..(j - 1) : IsDigit(Ch(s, k))

\* The first index >= i holding character c, Len(s)+1 when there is none.
IndexOf(s, c, i) ==
    IF i > Len(s) THEN i
    ELSE LET at == {j \in i..Len(s) : Ch(s, j) = c} IN
         IF at = {} THEN Len(s) + 1 ELSE Least(at)

(***************************************************************************)
(* Rule 1: r'if:\s*\$\{\{\s*secrets\.[A-Z_]+\s*\}\}'.                      *)
(* Each greedy class is followed by a character outside the class, so the  *)
(* greedy choice is the only one that can match.  The result is the index  *)
(* after the match, 0 when there is no match at i.                         *)
(***************************************************************************)
MatchSecretsAt(s, i) ==
    IF ~StartsWithAt(s, i, "if:") THEN 0
    ELSE LET a == SkipSpace(s, i + 3) IN
      IF ~StartsWithAt(s, a, "${{") THEN 0
      ELSE LET b == SkipSpace(s, a + 3) IN
        IF ~StartsWithAt(s, b, "secrets.") THEN 0
        ELSE LET c == b + 8
                 d == SkipUpper(s, c) IN
          IF d = c THEN 0
          ELSE LET e == SkipSpace(s, d) IN
            IF StartsWithAt(s, e, "}}") THEN e + 2 ELSE 0

\* re.findall: the matched texts, left to right, not overlapping.
RECURSIVE FindSecretsFrom(_, _)
FindSecretsFrom(s, i) ==
    LET at == {j \in i..Len(s) : MatchSecretsAt(s, j) > 0} IN
    IF at = {} THEN <<>>
    ELSE LET j == Least(at)
             e == MatchSecretsAt(s, j) IN
         <<SubSeq(s, j, e - 1)>> \o FindSecretsFrom(s, e)

secrets_in_if(content) == FindSecretsFrom(content, 1)

(***************************************************************************)
(* Rule 2: r'env:\s*\n\s*[A-Z_]+:' (computed, never used).                 *)
(* \s*\n\s* matches a run of white space holding a line break.             *)
(***************************************************************************)
MatchEnvAt(s, i) ==
    IF ~StartsWithAt(s, i, "env:") THEN 0
    ELSE LET a == SkipSpace(s, i + 4) IN
      IF ~Contains(SubSeq(s, i + 4, a - 1), "\n") THEN 0
      ELSE LET b == SkipUpper(s, a) IN
        IF b > a /\ StartsWithAt(s, b, ":") THEN b + 1 ELSE 0

RECURSIVE FindEnvFrom(_, _)
FindEnvFrom(s, i) ==
    LET at == {j \in i..Len(s) : MatchEnvAt(s, j) > 0} IN
    IF at = {} THEN <<>>
    ELSE LET j == Least(at)
             e == MatchEnvAt(s, j) IN
         <<SubSeq(s, j, e - 1)>> \o FindEnvFrom(s, e)

env_definitions(content) == FindEnvFrom(content, 1)

(***************************************************************************)
(* Rule 3: r'needs:\s*\[([^\]]+)\]' (computed, never used).                *)
(* findall gives the group: the text between the brackets.                 *)
(***************************************************************************)
MatchNeedsAt(s, i) ==
    IF ~StartsWithAt(s, i, "needs:") THEN 0
    ELSE LET a == SkipSpace(s, i + 6) IN
      IF ~StartsWithAt(s, a, "[") THEN 0
      ELSE LET b == IndexOf(s, "]", a + 1) IN
        IF b > a + 1 /\ b <= Len(s) THEN b + 1 ELSE 0

RECURSIVE FindNeedsFrom(_, _)
FindNeedsFrom(s, i) ==
    LET at == {j \in i..Len(s) : MatchNeedsAt(s, j) > 0} IN
    IF at = {} THEN <<>>
    ELSE LET j == Least(at)
             e == MatchNeedsAt(s, j) IN
         <<SubSeq(s, SkipSpace(s, j + 6) + 1, e - 2)>> \o FindNeedsFrom(s, e)

needs_pattern(content) == FindNeedsFrom(content, 1)

(***************************************************************************)
(* Rule 4: r'name:\s*([^\n]+)'.                                            *)
(* \s* is greedy and also takes line breaks; it gives characters back      *)
(* only when nothing else is left for [^\n]+, which then starts at the     *)
(* last character of the white space that is no line break.  The group     *)
(* runs to the end of its line.                                            *)
(***************************************************************************)
\* Where the group starts for a match at i, 0 when there is no match.
NameGroupStart(s, i) ==
    IF ~StartsWithAt(s, i, "name:") THEN 0
    ELSE LET a == SkipSpace(s, i + 5)
             starts == {j \in (i + 5)..Min(a, Len(s)) : Ch(s, j) # "\n"} IN
      IF starts = {} THEN 0
      ELSE CHOOSE j \in starts : \A k \in starts : k <= j

RECURSIVE FindNamesFrom(_, _)
FindNamesFrom(s, i) ==
    LET at == {j \in i..Len(s) : NameGroupStart(s, j) > 0} IN
    IF at = {} THEN <<>>
    ELSE LET g == NameGroupStart(s, Least(at))
             e == IndexOf(s, "\n", g) IN
         <<SubSeq(s, g, e - 1)>> \o FindNamesFrom(s, e)

artifact_names(content) == FindNamesFrom(content, 1)

\* ' ' in name or any(char in name for char in [...])
InvalidNameChars == {"/", "\\", ":", "*", "?", "\"", "<", ">", "|"}

HasInvalidChars(name) ==
    \/ Contains(name, " ")
    \/ \E c \in InvalidNameChars : Contains(name, c)

(***************************************************************************)
(* Rule 6: r'uses:\s*actions/[^@]+@v\d+'.                                  *)
(* [^@]+ stops at the first '@', the only place '@v' can follow it.        *)
(***************************************************************************)
MatchUsesAt(s, i) ==
    IF ~StartsWithAt(s, i, "uses:") THEN 0
    ELSE LET a == SkipSpace(s, i + 5) IN
      IF ~StartsWithAt(s, a, "actions/") THEN 0
      ELSE LET b == IndexOf(s, "@", a + 8) IN
        IF ~(b > a + 8 /\ StartsWithAt(s, b, "@v")) THEN 0
        ELSE LET c == SkipDigit(s, b + 2) IN
          IF c > b + 2 THEN c ELSE 0

RECURSIVE FindUsesFrom(_, _)
FindUsesFrom(s, i) ==
    LET at == {j \in i..Len(s) : MatchUsesAt(s, j) > 0} IN
    IF at = {} THEN <<>>
    ELSE LET j == Least(at)
             e == MatchUsesAt(s, j) IN
         <<SubSeq(s, j, e - 1)>> \o FindUsesFrom(s, e)

hardcoded_versions(content) == FindUsesFrom(content, 1)

(***************************************************************************)
(* validate_workflow_file, after the read: the two lists it returns.       *)
(***************************************************************************)
SecretsAdvisory == "Incorrect secrets usage in 'if' conditions. Use env variables instead."
PermissionsAdvisory == "Consider adding explicit permissions for security"
VersionsAdvisory == "Consider using latest versions or pinning to specific commits for security"

RECURSIVE FoundLines(_)
FoundLines(matches) ==
    IF matches = <<>> THEN <<>>
    ELSE <<"  Found: " \o Head(matches)>> \o FoundLines(Tail(matches))

\* Lines 24-27 with the loop over the matches stopped after the first.
SecretsErrors_first_match(content) ==
    LET found == secrets_in_if(content) IN
    IF found # <<>> THEN <<SecretsAdvisory, "  Found: " \o Head(found)>> ELSE <<>>

SecretsErrors(content) ==
    LET found == secrets_in_if(content) IN
    IF found # <<>> THEN <<SecretsAdvisory>> \o FoundLines(found) ELSE <<>>

RECURSIVE NameWarnings(_)
NameWarnings(names) ==
    IF names = <<>> THEN <<>>
    ELSE (IF HasInvalidChars(Head(names))
          THEN <<"Artifact name may contain invalid characters: " \o Head(names)>>
          ELSE <<>>) \o NameWarnings(Tail(names))

ArtifactWarnings(content) == NameWarnings(artifact_names(content))

PermissionsWarnings(content) ==
    IF Contains(content, "actions/checkout@v") /\ ~Contains(content, "permissions:")
    THEN <<PermissionsAdvisory>> ELSE <<>>

\* Lines 47-49 with one advisory for every match, as rule 1 has it.
RECURSIVE Repeat(_, _)
Repeat(x, n) == IF n = 0 THEN <<>> ELSE <<x>> \o Repeat(x, n - 1)

VersionsWarnings_per_match(content) ==
    Repeat(VersionsAdvisory, Len(hardcoded_versions(content)))

VersionsWarnings(content) ==
    IF hardcoded_versions(content) # <<>> THEN <<VersionsAdvisory>> ELSE <<>>

validate_workflow_file(content) ==
    [errors |-> SecretsErrors(content),
     warnings |-> ArtifactWarnings(content) \o PermissionsWarnings(content)
                    \o VersionsWarnings(content)]

(***************************************************************************)
(* File names: sorted() orders str by code point, character by character.  *)
(***************************************************************************)
CodePoint(c) ==
    CASE c = "." -> 46
      [] c = "a" -> 97
      [] c = "b" -> 98
      [] c = "l" -> 108
      [] c = "m" -> 109
      [] c = "y" -> 121

RECURSIVE StrLessFrom(_, _, _)
StrLessFrom(a, b, i) ==
    IF i > Len(b) THEN FALSE
    ELSE IF i > Len(a) THEN TRUE
    ELSE IF Ch(a, i) = Ch(b, i) THEN StrLessFrom(a, b, i + 1)
    ELSE CodePoint(Ch(a, i)) < CodePoint(Ch(b, i))

\* a < b on str
StrLess(a, b) == StrLessFrom(a, b, 1)

RECURSIVE Insert(_, _)
Insert(x, seq) ==
    IF seq = <<>> THEN <<x>>
    ELSE IF StrLess(x, Head(seq)) THEN <<x>> \o seq
    ELSE <<Head(seq)>> \o Insert(x, Tail(seq))

\* sorted() left out: the entries in the order os.listdir gave them.
sorted_left_out(seq) == seq

RECURSIVE sorted(_)
sorted(seq) == IF seq = <<>> THEN <<>> ELSE Insert(Head(seq), sorted(Tail(seq)))

\* file.endswith('.yml')
IsWorkflowFile(file) == EndsWith(file, ".yml")

(***************************************************************************)
(* The file systems of the model.                                          *)
(***************************************************************************)
Names == {"a.yml", "b.yml", "a.yaml", "yml"}

Fragments ==
    {"if: ${{ secrets.MY_TOKEN }}",
     "name: my artifact",
     "name: my-artifact",
     "name:",
     "uses: actions/checkout@v2",
     "uses: actions/checkout@v2\nuses: actions/checkout@v3",
     "permissions:",
     "needs: [build]\nenv:\n  MY_VAR: x"}

\* The texts of n fragments, each ended by a line break.
RECURSIVE TextsOf(_)
TextsOf(n) ==
    IF n = 0 THEN {""}
    ELSE {f \o "\n" \o t : f \in Fragments, t \in TextsOf(n - 1)}

RECURSIVE SumOver(_, _)
SumOver(f, S) ==
    IF S = {} THEN 0
    ELSE LET x == CHOOSE y \in S : TRUE IN f[x] + SumOver(f, S \ {x})

\* A file that main() has no reason to open.
OtherFile == [text |-> "if: ${{ secrets.MY_TOKEN }}\nname: my artifact\n", yaml |-> TRUE]

\* What yaml.safe_load makes of a text is PyYAML's business: either outcome,
\* but the empty document always loads.
FilesOf(n) ==
    {[text |-> t, yaml |-> y] : t \in TextsOf(n), y \in BOOLEAN} \
        {[text |-> "", yaml |-> FALSE]}

\* The files entry e may be, holding n fragments when it is a workflow file.
FileChoices(e, n) == IF EndsWith(e, ".yml") THEN FilesOf(n) ELSE {OtherFile}

\* The directories with entries E, entry e holding cnt[e] fragments.
RECURSIVE DirectoriesOf(_, _)
DirectoriesOf(E, cnt) ==
    IF E = {} THEN {<<>>}
    ELSE LET e == CHOOSE x \in E : TRUE IN
      {(e :> f) @@ d : f \in FileChoices(e, cnt[e]), d \in DirectoriesOf(E \ {e}, cnt)}

\* The entry sets and fragment counts of the directories: at most MaxEntries
\* entries, the workflow files holding at most MaxLines fragments together.
EntrySets == {S \in SUBSET Names : Cardinality(S) <= MaxEntries}

FragmentCounts(E) ==
    {c \in [E -> 0..MaxLines] :
       /\ SumOver(c, E) <= MaxLines
       /\ \A e \in E : ~EndsWith(e, ".yml") => c[e] = 0}

\* os.listdir gives the entries in arbitrary order.
Listings(S) ==
    {l \in [1..Cardinality(S) -> S] : \A i, j \in DOMAIN l : i # j => l[i] # l[j]}

(***************************************************************************)
(* The state of a run of main().                                           *)
(***************************************************************************)
VARIABLES
    dirState,        \* github-workflows-backup: "missing", "file" or "dir"
    fs,              \* entry name -> [text, yaml] of the directory
    pc,              \* "main", "listdir", "loop", "rules", "exited"
    files,           \* sorted(os.listdir(workflow_dir))
    idx,             \* position of the for loop in files
    total_errors,
    total_warnings,
    out,             \* the lines printed, in order
    listed,          \* os.listdir was called
    open_calls,      \* the entries open() was called on, in order
    raised,          \* the exception that left main(), "" when none
    exit_code        \* <<>> while running, <<code>> once the process ended

vars == <<dirState, fs, pc, files, idx, total_errors, total_warnings, out,
          listed, open_calls, raised, exit_code>>

Line(kind, text, num) == [kind |-> kind, text |-> text, num |-> num]

RECURSIVE Lines(_, _)
Lines(kind, texts) ==
    IF texts = <<>> THEN <<>>
    ELSE <<Line(kind, Head(texts), 0)>> \o Lines(kind, Tail(texts))

Init ==
    /\ dirState \in {"missing", "file", "dir"}
    /\ IF dirState = "dir"
       THEN \E E \in EntrySets : \E cnt \in FragmentCounts(E) :
              fs \in DirectoriesOf(E, cnt)
       ELSE fs = <<>>
    /\ pc = "main"
    /\ files = <<>>
    /\ idx = 1
    /\ total_errors = 0
    /\ total_warnings = 0
    /\ out = <<>>
    /\ listed = FALSE
    /\ open_calls = <<>>
    /\ raised = ""
    /\ exit_code = <<>>

\* An exception nothing catches: the interpreter prints the traceback and
\* ends the process with status 1.
Raise(exc) ==
    /\ pc' = "exited"
    /\ raised' = exc
    /\ exit_code' = <<1>>

\* Lines 57-59 without the sys.exit(1): the message, then the run goes on.
DirectoryNotFound_no_exit ==
    /\ pc = "main"
    /\ dirState = "missing"
    /\ out' = out \o <<Line("not_found", "github-workflows-backup", 0),
                       Line("banner", "", 0), Line("rule", "", 0)>>
    /\ total_errors' = 0
    /\ total_warnings' = 0
    /\ pc' = "listdir"
    /\ UNCHANGED <<dirState, fs, files, idx, listed, open_calls, raised, exit_code>>

\* Lines 57-59: the directory does not exist.
DirectoryNotFound ==
    /\ pc = "main"
    /\ dirState = "missing"
    /\ out' = Append(out, Line("not_found", "github-workflows-backup", 0))
    /\ pc' = "exited"
    /\ exit_code' = <<1>>
    /\ UNCHANGED <<dirState, fs, files, idx, total_errors, total_warnings,
                   listed, open_calls, raised>>

\* Lines 57-65: the path exists (os.path.exists is true of a file too).
Begin ==
    /\ pc = "main"
    /\ dirState # "missing"
    /\ out' = out \o <<Line("banner", "", 0), Line("rule", "", 0)>>
    /\ total_errors' = 0
    /\ total_warnings' = 0
    /\ pc' = "listdir"
    /\ UNCHANGED <<dirState, fs, files, idx, listed, open_calls, raised, exit_code>>

\* Line 67: sorted(os.listdir(workflow_dir)).
ListDir ==
    /\ pc = "listdir"
    /\ dirState = "dir"
    /\ \E listing \in Listings(DOMAIN fs) : files' = sorted(listing)
    /\ idx' = 1
    /\ listed' = TRUE
    /\ pc' = "loop"
    /\ UNCHANGED <<dirState, fs, total_errors, total_warnings, out, open_calls,
                   raised, exit_code>>

\* Line 67: os.listdir of a path that is no directory raises
\* NotADirectoryError (FileNotFoundError when there is no such path).
ListDirFails ==
    /\ pc = "listdir"
    /\ dirState # "dir"
    /\ listed' = TRUE
    /\ Raise(IF dirState = "file" THEN "NotADirectoryError" ELSE "FileNotFoundError")
    /\ UNCHANGED <<dirState, fs, files, idx, total_errors, total_warnings, out,
                   open_calls>>

InLoop == pc = "loop" /\ idx <= Len(files)

\* Lines 68-69: an entry that does not end in .yml.
SkipEntry ==
    /\ InLoop
    /\ ~IsWorkflowFile(files[idx])
    /\ idx' = idx + 1
    /\ UNCHANGED <<dirState, fs, pc, files, total_errors, total_warnings, out,
                   listed, open_calls, raised, exit_code>>

\* Lines 72-78: the header, then the file loads.
YamlValid ==
    /\ InLoop
    /\ IsWorkflowFile(files[idx])
    /\ fs[files[idx]].yaml
    /\ open_calls' = Append(open_calls, files[idx])
    /\ out' = out \o <<Line("header", files[idx], 0), Line("valid_yaml", "", 0)>>
    /\ pc' = "rules"
    /\ UNCHANGED <<dirState, fs, files, idx, total_errors, total_warnings,
                   listed, raised, exit_code>>

\* Lines 72-82 without the continue: the file goes on to the rules.
YamlInvalid_no_continue ==
    /\ InLoop
    /\ IsWorkflowFile(files[idx])
    /\ ~fs[files[idx]].yaml
    /\ open_calls' = Append(open_calls, files[idx])
    /\ out' = out \o <<Line("header", files[idx], 0), Line("yaml_error", "", 0)>>
    /\ total_errors' = total_errors + 1
    /\ pc' = "rules"
    /\ UNCHANGED <<dirState, fs, files, idx, total_warnings, listed, raised,
                   exit_code>>

\* Lines 72-82: the header, then yaml.YAMLError.
YamlInvalid ==
    /\ InLoop
    /\ IsWorkflowFile(files[idx])
    /\ ~fs[files[idx]].yaml
    /\ open_calls' = Append(open_calls, files[idx])
    /\ out' = out \o <<Line("header", files[idx], 0), Line("yaml_error", "", 0)>>
    /\ total_errors' = total_errors + 1
    /\ idx' = idx + 1
    /\ UNCHANGED <<dirState, fs, pc, files, total_warnings, listed, raised,
                   exit_code>>

\* Lines 72-76: open() raises OSError (no permission, no such file, a
\* directory), which the except clause of line 79 does not catch.
YamlOpenFails ==
    /\ InLoop
    /\ IsWorkflowFile(files[idx])
    /\ open_calls' = Append(open_calls, files[idx])
    /\ out' = Append(out, Line("header", files[idx], 0))
    /\ Raise("OSError")
    /\ UNCHANGED <<dirState, fs, files, idx, total_errors, total_warnings, listed>>

\* Lines 87-100 with line 99 testing the errors only.
FileReport_no_errors_only(r) ==
    (IF r.errors # <<>>
     THEN <<Line("errors_found", "", 0)>> \o Lines("error", r.errors) ELSE <<>>)
    \o (IF r.warnings # <<>>
        THEN <<Line("warnings", "", 0)>> \o Lines("warning", r.warnings) ELSE <<>>)
    \o (IF r.errors = <<>> THEN <<Line("no_issues", "", 0)>> ELSE <<>>)

\* Lines 87-100: the report of one file.
FileReport(r) ==
    (IF r.errors # <<>>
     THEN <<Line("errors_found", "", 0)>> \o Lines("error", r.errors) ELSE <<>>)
    \o (IF r.warnings # <<>>
        THEN <<Line("warnings", "", 0)>> \o Lines("warning", r.warnings) ELSE <<>>)
    \o (IF r.errors = <<>> /\ r.warnings = <<>>
        THEN <<Line("no_issues", "", 0)>> ELSE <<>>)

\* Lines 85-100 with the counters counting files, not findings.
ValidateAndReport_count_files ==
    /\ pc = "rules"
    /\ open_calls' = Append(open_calls, files[idx])
    /\ LET r == validate_workflow_file(fs[files[idx]].text) IN
         /\ out' = out \o FileReport(r)
         /\ total_errors' = total_errors + (IF r.errors # <<>> THEN 1 ELSE 0)
         /\ total_warnings' = total_warnings + (IF r.warnings # <<>> THEN 1 ELSE 0)
    /\ idx' = idx + 1
    /\ pc' = "loop"
    /\ UNCHANGED <<dirState, fs, files, listed, raised, exit_code>>

\* Lines 85-100: validate_workflow_file, the report, the counters.
ValidateAndReport ==
    /\ pc = "rules"
    /\ open_calls' = Append(open_calls, files[idx])
    /\ LET r == validate_workflow_file(fs[files[idx]].text) IN
         /\ out' = out \o FileReport(r)
         /\ total_errors' = total_errors + Len(r.errors)
         /\ total_warnings' = total_warnings + Len(r.warnings)
    /\ idx' = idx + 1
    /\ pc' = "loop"
    /\ UNCHANGED <<dirState, fs, files, listed, raised, exit_code>>

\* Lines 17, 85: the open() of validate_workflow_file raises OSError.
ValidateOpenFails ==
    /\ pc = "rules"
    /\ open_calls' = Append(open_calls, files[idx])
    /\ Raise("OSError")
    /\ UNCHANGED <<dirState, fs, files, idx, total_errors, total_warnings, out,
                   listed>>

\* Lines 107-112 with warnings failing the run too.
main_return_strict(errors, warnings) == IF errors = 0 /\ warnings = 0 THEN 0 ELSE 1

\* Lines 107-112.
main_return(errors, warnings) == IF errors = 0 THEN 0 ELSE 1

\* Lines 102-112: the summary and the return value, which sys.exit takes.
Summary ==
    /\ pc = "loop"
    /\ idx > Len(files)
    /\ out' = out \o <<Line("rule", "", 0), Line("summary", "", 0),
                       Line("total_errors", "", total_errors),
                       Line("total_warnings", "", total_warnings),
                       IF main_return(total_errors, total_warnings) = 0
                       THEN Line("all_valid", "", 0) ELSE Line("fix_errors", "", 0)>>
    /\ exit_code' = <<main_return(total_errors, total_warnings)>>
    /\ pc' = "exited"
    /\ UNCHANGED <<dirState, fs, files, idx, total_errors, total_warnings,
                   listed, open_calls, raised>>

Next ==
    \/ DirectoryNotFound
    \/ Begin
    \/ ListDir
    \/ ListDirFails
    \/ SkipEntry
    \/ YamlValid
    \/ YamlInvalid
    \/ YamlOpenFails
    \/ ValidateAndReport
    \/ ValidateOpenFails
    \/ Summary

Spec == Init /\ [][Next]_vars

(***************************************************************************)
(* Reading the output: the report of a file runs from its header to the    *)
(* line before the next header or the closing rule.                        *)
(***************************************************************************)
HeaderIdx == {i \in 1..Len(out) : out[i].kind = "header"}

BlockEnd(i) ==
    LET later == {j \in (i + 1)..Len(out) : out[j].kind \in {"header", "rule"}} IN
    IF later = {} THEN Len(out)
    ELSE (CHOOSE j \in later : \A k \in later : j <= k) - 1

Block(i) == SubSeq(out, i, BlockEnd(i))

IsHeader(l) == l.kind = "header"

\* The names of the files checked so far, in the order of their headers.
HeaderFiles ==
    LET h == SelectSeq(out, IsHeader) IN [i \in 1..Len(h) |-> h[i].text]

Range(seq) == {seq[i] : i \in 1..Len(seq)}

Completed == dirState = "dir" /\ pc = "exited" /\ raised = ""

(***************************************************************************)
(* C1. When the directory exists and every file was processed, main()      *)
(* returns 0 if and only if total_errors is 0, whatever total_warnings is. *)
(***************************************************************************)
C1_ExitCodeIffNoErrors ==
    Completed =>
        /\ exit_code \in {<<0>>, <<1>>}
        /\ exit_code = <<0>> <=> total_errors = 0

\* A run with warnings and no error has returned 0.
C1_Witness ==
    /\ Completed
    /\ total_errors = 0
    /\ total_warnings > 0
    /\ exit_code = <<0>>

(***************************************************************************)
(* C2. A file that fails the YAML parse adds exactly one to total_errors   *)
(* and nothing to total_warnings, prints its header and the YAML error     *)
(* only, is opened once (validate_workflow_file is not called), and the    *)
(* loop goes on to the next entry.                                         *)
(***************************************************************************)
C2_YamlFailureStep ==
    (/\ InLoop
     /\ EndsWith(files[idx], ".yml")
     /\ ~fs[files[idx]].yaml
     /\ raised' = "")
    => /\ total_errors' = total_errors + 1
       /\ total_warnings' = total_warnings
       /\ out' = out \o <<Line("header", files[idx], 0), Line("yaml_error", "", 0)>>
       /\ open_calls' = Append(open_calls, files[idx])
       /\ pc' = "loop"
       /\ idx' = idx + 1
       /\ files' = files

C2_YamlFailure == [][C2_YamlFailureStep]_vars

\* A file holding the secrets pattern failed the parse, counted one error,
\* and the next file's report has begun.
C2_Witness ==
    \E i \in HeaderIdx :
        /\ ~fs[out[i].text].yaml
        /\ secrets_in_if(fs[out[i].text].text) # <<>>
        /\ Block(i) = <<Line("header", out[i].text, 0), Line("yaml_error", "", 0)>>
        /\ BlockEnd(i) < Len(out)
        /\ out[BlockEnd(i) + 1].kind = "header"
        /\ total_errors = 1

(***************************************************************************)
(* C3. With the directory missing the run ends at once with exit code 1:   *)
(* the not-found message is the only output, nothing is listed or opened,  *)
(* and the counters stay as they were.                                     *)
(***************************************************************************)
C3_DirectoryNotFound ==
    dirState = "missing" =>
        /\ pc \in {"main", "exited"}
        /\ ~listed
        /\ open_calls = <<>>
        /\ total_errors = 0 /\ total_warnings = 0
        /\ raised = ""
        /\ pc = "main" => out = <<>> /\ exit_code = <<>>
        /\ pc = "exited" =>
              /\ out = <<Line("not_found", "github-workflows-backup", 0)>>
              /\ exit_code = <<1>>

C3_Witness == dirState = "missing" /\ pc = "exited" /\ Len(out) = 1

(***************************************************************************)
(* C4. No exception escapes main().                                        *)
(***************************************************************************)
C4_NoExceptionEscapes == raised = ""

IsErrorLine(l) == l.kind = "error"
IsWarningLine(l) == l.kind = "warning"

Texts(ls) == [i \in 1..Len(ls) |-> ls[i].text]

\* The report of the file whose header is line i goes beyond the YAML line.
Reported(i) == Len(Block(i)) > 2

(***************************************************************************)
(* C6. A file that loads and holds k >= 1 matches of the secrets pattern   *)
(* gets k+1 errors, the advisory and then one 'Found:' line per match,     *)
(* adds k+1 to total_errors, and the process ends with exit code 1; with   *)
(* no match the rule gives no error.                                       *)
(***************************************************************************)
C6_SecretsStep ==
    (pc = "rules" /\ raised' = "") =>
        LET content == fs[files[idx]].text
            found == secrets_in_if(content)
            k == Len(found)
            printed == Texts(SelectSeq(SubSeq(out', Len(out) + 1, Len(out')),
                                       IsErrorLine))
        IN /\ Len(validate_workflow_file(content).errors) = (IF k >= 1 THEN k + 1 ELSE 0)
           /\ printed = validate_workflow_file(content).errors
           /\ k >= 1 => /\ Len(printed) = k + 1
                        /\ printed[1] = SecretsAdvisory
                        /\ \A j \in 1..k : printed[j + 1] = "  Found: " \o found[j]
                        /\ total_errors' = total_errors + k + 1
           /\ k = 0 => printed = <<>> /\ total_errors' = total_errors

C6_SecretsExit ==
    (/\ pc = "exited"
     /\ \E i \in HeaderIdx : /\ fs[out[i].text].yaml
                             /\ Reported(i)
                             /\ secrets_in_if(fs[out[i].text].text) # <<>>)
    => exit_code = <<1>>

C6_SecretsInConditional == [][C6_SecretsStep]_vars /\ []C6_SecretsExit

\* A file with two matches was reported: three errors, exit code 1.
C6_Witness ==
    /\ Completed
    /\ \E i \in HeaderIdx : /\ fs[out[i].text].yaml
                            /\ Len(secrets_in_if(fs[out[i].text].text)) = 2
                            /\ Len(SelectSeq(Block(i), IsErrorLine)) = 3
    /\ total_errors = 3
    /\ exit_code = <<1>>

(***************************************************************************)
(* C7. The directory holds a.yml (loads, holds uses: actions/checkout@v<d>,*)
(* no permissions:, no name: and no secrets reference) and b.yml (fails    *)
(* the parse).  The run reports a.yml with no error and the two warnings   *)
(* (permissions, versions), b.yml with the YAML error, totals 1 and 2,     *)
(* and returns 1.                                                          *)
(***************************************************************************)
C7_Scenario ==
    /\ dirState = "dir"
    /\ {e \in DOMAIN fs : EndsWith(e, ".yml")} = {"a.yml", "b.yml"}
    /\ fs["a.yml"].yaml
    /\ ~fs["b.yml"].yaml
    /\ \E d \in {"0", "1", "2", "3", "4", "5", "6", "7", "8", "9"} :
          Contains(fs["a.yml"].text, "uses: actions/checkout@v" \o d)
    /\ ~Contains(fs["a.yml"].text, "permissions:")
    /\ ~Contains(fs["a.yml"].text, "name:")
    /\ ~Contains(fs["a.yml"].text, "secrets.")

C7_TwoFileScenario ==
    (C7_Scenario /\ pc = "exited" /\ raised = "") =>
        /\ out = <<Line("banner", "", 0), Line("rule", "", 0),
                   Line("header", "a.yml", 0), Line("valid_yaml", "", 0),
                   Line("warnings", "", 0),
                   Line("warning", PermissionsAdvisory, 0),
                   Line("warning", VersionsAdvisory, 0),
                   Line("header", "b.yml", 0), Line("yaml_error", "", 0),
                   Line("rule", "", 0), Line("summary", "", 0),
                   Line("total_errors", "", 1), Line("total_warnings", "", 2),
                   Line("fix_errors", "", 0)>>
        /\ total_errors = 1
        /\ total_warnings = 2
        /\ exit_code = <<1>>

\* The scenario has run to its end, a.yml holding two checkout references.
C7_Witness ==
    /\ C7_Scenario
    /\ Completed
    /\ Len(hardcoded_versions(fs["a.yml"].text)) = 2
    /\ total_warnings = 2

(***************************************************************************)
(* C8. The artifact-name rule warns once for every line `name: <value>`    *)
(* whose value holds a space or one of / \ : * ? " < > |, naming the       *)
(* value, and not at all for the other lines, whatever stands around the   *)
(* line.  The lines are read here as the claim reads them: each line by    *)
(* itself, the value being what follows `name:` and its blanks.            *)
(***************************************************************************)
RECURSIVE SplitLines(_, _)
SplitLines(s, i) ==
    IF i > Len(s) THEN <<>>
    ELSE LET e == IndexOf(s, "\n", i) IN <<SubSeq(s, i, e - 1)>> \o SplitLines(s, e + 1)

FindFrom(s, lit, i) ==
    LET at == {j \in i..Len(s) : StartsWithAt(s, j, lit)} IN
    IF at = {} THEN 0 ELSE Least(at)

\* The value of a line `name: <value>`, "" when the line is none or has none.
NameValue(line) ==
    LET p == FindFrom(line, "name:", 1) IN
    IF p = 0 THEN "" ELSE SubSeq(line, SkipSpace(line, p + 5), Len(line))

Offending(value) ==
    \E i \in 1..Len(value) :
        Ch(value, i) \in {" ", "/", "\\", ":", "*", "?", "\"", "<", ">", "|"}

RECURSIVE LineWarnings(_)
LineWarnings(ls) ==
    IF ls = <<>> THEN <<>>
    ELSE (IF Offending(NameValue(Head(ls)))
          THEN <<"Artifact name may contain invalid characters: " \o NameValue(Head(ls))>>
          ELSE <<>>) \o LineWarnings(Tail(ls))

IsNameWarning(l) ==
    /\ l.kind = "warning"
    /\ StartsWithAt(l.text, 1, "Artifact name may contain invalid characters: ")

C8_ArtifactNamePerLine ==
    \A i \in HeaderIdx :
        (fs[out[i].text].yaml /\ Reported(i)) =>
            Texts(SelectSeq(Block(i), IsNameWarning))
                = LineWarnings(SplitLines(fs[out[i].text].text, 1))

\* The same statement kept to the texts in which every `name:` is followed
\* by a value on its own line.
NoBareName(content) ==
    \A i \in 1..Len(content) :
        StartsWithAt(content, i, "name:") =>
            LET a == SkipSpace(content, i + 5) IN
            a <= Len(content) /\ ~Contains(SubSeq(content, i + 5, a - 1), "\n")

C8_PerLineWhenValuesPresent ==
    \A i \in HeaderIdx :
        (fs[out[i].text].yaml /\ Reported(i) /\ NoBareName(fs[out[i].text].text)) =>
            Texts(SelectSeq(Block(i), IsNameWarning))
                = LineWarnings(SplitLines(fs[out[i].text].text, 1))

(***************************************************************************)
(* C9. The counters are never negative and never decrease; once i entries  *)
(* are done they are the sums of the files' counts (1 and 0 for a file     *)
(* that fails the parse, the lengths of the lists validate_workflow_file   *)
(* returns for a file that loads); the summary prints these sums.          *)
(***************************************************************************)
FileErrors(e) ==
    IF ~EndsWith(e, ".yml") THEN 0
    ELSE IF ~fs[e].yaml THEN 1
    ELSE Len(validate_workflow_file(fs[e].text).errors)

FileWarnings(e) ==
    IF ~EndsWith(e, ".yml") \/ ~fs[e].yaml THEN 0
    ELSE Len(validate_workflow_file(fs[e].text).warnings)

RECURSIVE SumErrors(_)
SumErrors(n) == IF n = 0 THEN 0 ELSE FileErrors(files[n]) + SumErrors(n - 1)

RECURSIVE SumWarnings(_)
SumWarnings(n) == IF n = 0 THEN 0 ELSE FileWarnings(files[n]) + SumWarnings(n - 1)

C9_CountersAreSums ==
    /\ total_errors >= 0
    /\ total_warnings >= 0
    /\ total_errors = SumErrors(idx - 1)
    /\ total_warnings = SumWarnings(idx - 1)
    /\ \A i \in 1..Len(out) :
          /\ out[i].kind = "total_errors" =>
                out[i].num = SumErrors(Len(files)) /\ idx = Len(files) + 1
          /\ out[i].kind = "total_warnings" => out[i].num = SumWarnings(Len(files))

C9_CountersStep ==
    /\ total_errors' >= total_errors
    /\ total_warnings' >= total_warnings

C9_Counters == []C9_CountersAreSums /\ [][C9_CountersStep]_vars

\* Two files done, one failing the parse, one with two errors: three in all.
C9_Witness ==
    /\ Completed
    /\ Len(HeaderFiles) = 2
    /\ \E e \in DOMAIN fs : EndsWith(e, ".yml") /\ ~fs[e].yaml
    /\ \E e \in DOMAIN fs : EndsWith(e, ".yml") /\ fs[e].yaml /\ FileErrors(e) = 2
    /\ total_errors = 3
    /\ out[Len(out) - 2] = Line("total_errors", "", 3)

(***************************************************************************)
(* C10. A file's report is its header, then the YAML error and nothing     *)
(* more, or the valid-YAML line, the errors, the warnings; 'No issues      *)
(* found' is printed exactly when the file loaded and both lists are       *)
(* empty, as they are when no live rule matches (the dead rules 2 and 3    *)
(* may match), and such a file adds nothing to the counters.               *)
(***************************************************************************)
Kinds(ls) == [i \in 1..Len(ls) |-> ls[i].kind]

RECURSIVE Copies(_, _)
Copies(x, n) == IF n = 0 THEN <<>> ELSE <<x>> \o Copies(x, n - 1)

\* The shape of a finished report with ne error lines and nw warning lines.
ReportShape(ne, nw) ==
    <<"header", "valid_yaml">>
    \o (IF ne > 0 THEN <<"errors_found">> \o Copies("error", ne) ELSE <<>>)
    \o (IF nw > 0 THEN <<"warnings">> \o Copies("warning", nw) ELSE <<>>)
    \o (IF ne = 0 /\ nw = 0 THEN <<"no_issues">> ELSE <<>>)

\* No rule that can produce a finding matches the text.
NoLiveMatch(content) ==
    /\ secrets_in_if(content) = <<>>
    /\ artifact_names(content) = <<>>
    /\ ~Contains(content, "actions/checkout@v")
    /\ hardcoded_versions(content) = <<>>

\* The last report is still being written, or an exception cut it short.
Unfinished(i) ==
    /\ BlockEnd(i) = Len(out)
    /\ pc = "rules" \/ raised # ""

C10_ReportShape ==
    \A i \in HeaderIdx :
        LET b == Block(i)
            f == out[i].text
            ne == Len(SelectSeq(b, IsErrorLine))
            nw == Len(SelectSeq(b, IsWarningLine))
            r == validate_workflow_file(fs[f].text)
        IN IF Unfinished(i)
           THEN Kinds(b) \in {<<"header">>, <<"header", "valid_yaml">>}
           ELSE IF ~fs[f].yaml
           THEN Kinds(b) = <<"header", "yaml_error">>
           ELSE /\ Kinds(b) = ReportShape(ne, nw)
                /\ Texts(SelectSeq(b, IsErrorLine)) = r.errors
                /\ Texts(SelectSeq(b, IsWarningLine)) = r.warnings
                /\ b[Len(b)].kind = "no_issues" <=> (r.errors = <<>> /\ r.warnings = <<>>)
                /\ NoLiveMatch(fs[f].text) => Kinds(b) = <<"header", "valid_yaml", "no_issues">>

C10_NoIssuesStep ==
    (out' # out /\ out'[Len(out')].kind = "no_issues") =>
        /\ pc = "rules"
        /\ total_errors' = total_errors
        /\ total_warnings' = total_warnings

C10_ReportOrder == []C10_ReportShape /\ [][C10_NoIssuesStep]_vars

\* A file matching only the dead rules was reported with 'No issues found'.
C10_Witness ==
    \E i \in HeaderIdx :
        /\ needs_pattern(fs[out[i].text].text) # <<>>
        /\ env_definitions(fs[out[i].text].text) # <<>>
        /\ Kinds(Block(i)) = <<"header", "valid_yaml", "no_issues">>
        /\ total_errors = 0 /\ total_warnings = 0
        /\ pc = "loop"

====
